---------------------------- MODULE Spec2Model ----------------------------
(***************************************************************************)
(* Identity normalization and query dispatch of the business-directory     *)
(* lookup service (app/utils/normalization.py, app/utils/query_builders.py,*)
(* app/api/v1/outscraper/business.py).                                     *)
(*                                                                         *)
(* A string is a sequence of one-character strings.  The characters that   *)
(* occur are ASCII letters, the digit 8, the punctuation the normalizers   *)
(* and urllib.parse look at, and the space as the one whitespace           *)
(* character.  Not in the alphabet: "]" (so a "[" in a netloc is an        *)
(* unmatched bracket), ";" (no URL params), tab, CR, LF and non-ASCII.     *)
(***************************************************************************)
EXTENDS Integers, Sequences, FiniteSets, TLC

(***************************************************************************)
(* Characters and Python's str primitives                                  *)
(***************************************************************************)
LowerLetters ==
  <<"a","b","c","d","e","f","g","h","i","j","k","l","m",
    "n","o","p","q","r","s","t","u","v","w","x","y","z">>

UpperLetters ==
  <<"A","B","C","D","E","F","G","H","I","J","K","L","M",
    "N","O","P","Q","R","S","T","U","V","W","X","Y","Z">>

Range(f) == {f[i] : i \in DOMAIN f}

LowerSet == Range(LowerLetters)

UpperSet == Range(UpperLetters)

Digits == {"0","1","2","3","4","5","6","7","8","9"}

\* str.strip() with no argument strips whitespace; the space stands for it.
Whitespace == {" "}

LowerOf == [c \in UpperSet |-> LowerLetters[CHOOSE i \in 1..26 : UpperLetters[i] = c]]

\* characters outside ASCII, each written as its code point: the Kelvin sign,
\* and the capital and the small e with acute
KelvinSign == "U+212A"

EAcuteCapital == "U+00C9"

EAcuteSmall == "U+00E9"

NonAsciiChars == {KelvinSign, EAcuteCapital, EAcuteSmall}

\* one character of str.lower(), which follows Unicode: the Kelvin sign's
\* lowercase is the ASCII letter k
LowerChar(c) ==
  IF c \in UpperSet THEN LowerOf[c]
  ELSE IF c = KelvinSign THEN "k"
  ELSE IF c = EAcuteCapital THEN EAcuteSmall
  ELSE c

\* str.lower()
ToLower(s) == [i \in 1..Len(s) |-> LowerChar(s[i])]

SetMin(S) == CHOOSE x \in S : \A y \in S : x <= y

SetMax(S) == CHOOSE x \in S : \A y \in S : x >= y

\* `c in s` for a character c
HasChar(s, c) == \E i \in 1..Len(s) : s[i] = c

\* `pat in s` for a substring pat
Contains(s, pat) ==
  \E i \in 1..(Len(s) - Len(pat) + 1) : SubSeq(s, i, i + Len(pat) - 1) = pat

\* s.find(c) + 1: the 1-based position of the first c, 0 when there is none
Find(s, c) ==
  IF HasChar(s, c) THEN SetMin({i \in 1..Len(s) : s[i] = c}) ELSE 0

\* s.startswith(p)
StartsWith(s, p) == Len(s) >= Len(p) /\ SubSeq(s, 1, Len(p)) = p

\* s.lstrip(chars)
LStrip(s, chars) ==
  LET keep == {i \in 1..Len(s) : s[i] \notin chars}
  IN  IF keep = {} THEN <<>> ELSE SubSeq(s, SetMin(keep), Len(s))

\* s.rstrip(chars)
RStrip(s, chars) ==
  LET keep == {i \in 1..Len(s) : s[i] \notin chars}
  IN  IF keep = {} THEN <<>> ELSE SubSeq(s, 1, SetMax(keep))

\* s.strip()
Strip(s) == RStrip(LStrip(s, Whitespace), Whitespace)

\* s.split(c)[0]
SplitHead(s, c) == IF HasChar(s, c) THEN SubSeq(s, 1, Find(s, c) - 1) ELSE s

\* s.split(c, 1)[1] when c is in s
SplitTail(s, c) == SubSeq(s, Find(s, c) + 1, Len(s))

AllIn(s, chars) == \A i \in 1..Len(s) : s[i] \in chars

(***************************************************************************)
(* Values: what a normalizer is given and what it returns                  *)
(***************************************************************************)
None == [t |-> "none", s |-> <<>>, n |-> 0]

Str(s) == [t |-> "str", s |-> s, n |-> 0]

\* a value that is not a string (an int)
NonStr(n) == [t |-> "int", s |-> <<>>, n |-> n]

\* an exception leaving the function
Raised == [t |-> "raise", s |-> <<>>, n |-> 0]

\* Python truthiness: `not v` is ~Truthy(v)
Truthy(v) ==
  CASE v.t = "none" -> FALSE
    [] v.t = "str"  -> v.s # <<>>
    [] v.t = "int"  -> v.n # 0
    [] OTHER        -> TRUE

IsStr(v) == v.t = "str"

(***************************************************************************)
(* urllib.parse.urlparse, as the normalizers call it                       *)
(***************************************************************************)
SchemeChars == LowerSet \cup UpperSet \cup Digits \cup {"+", "-", "."}

\* _splitnetloc(url, 2): the end of the netloc is the first of "/", "?", "#"
NetlocEnd(url) ==
  LET ds == {i \in 3..Len(url) : url[i] \in {"/", "?", "#"}}
  IN  IF ds = {} THEN Len(url) + 1 ELSE SetMin(ds)

\* urlparse(url): scheme, netloc, path, query, fragment, and whether it raised
UrlParse(u) ==
  LET url0 == LStrip(u, Whitespace)
      i == Find(url0, ":")
      hasScheme == /\ i > 1
                   /\ url0[1] \in LowerSet \cup UpperSet
                   /\ AllIn(SubSeq(url0, 1, i - 1), SchemeChars)
      scheme == IF hasScheme THEN ToLower(SubSeq(url0, 1, i - 1)) ELSE <<>>
      url1 == IF hasScheme THEN SubSeq(url0, i + 1, Len(url0)) ELSE url0
      hasNetloc == Len(url1) >= 2 /\ SubSeq(url1, 1, 2) = <<"/", "/">>
      netloc == IF hasNetloc THEN SubSeq(url1, 3, NetlocEnd(url1) - 1) ELSE <<>>
      url2 == IF hasNetloc THEN SubSeq(url1, NetlocEnd(url1), Len(url1)) ELSE url1
      badBracket == \/ HasChar(netloc, "[") /\ ~HasChar(netloc, "]")
                    \/ HasChar(netloc, "]") /\ ~HasChar(netloc, "[")
      fragment == IF HasChar(url2, "#") THEN SplitTail(url2, "#") ELSE <<>>
      url3 == SplitHead(url2, "#")
      query == IF HasChar(url3, "?") THEN SplitTail(url3, "?") ELSE <<>>
      url4 == SplitHead(url3, "?")
  IN  [error |-> badBracket, scheme |-> scheme, netloc |-> netloc,
       path |-> url4, query |-> query, fragment |-> fragment]

(***************************************************************************)
(* normalize_domain                                                        *)
(***************************************************************************)
\* a normalize_domain with no except clause around urlparse
PropagateParseError == Raised

\* the value of the function when urlparse raises: the except clause
OnUrlParseError == None

\* the substitution without flags=re.IGNORECASE
StripWwwCaseSensitive(s) ==
  IF Len(s) >= 4 /\ SubSeq(s, 1, 4) = <<"w", "w", "w", ".">>
  THEN SubSeq(s, 5, Len(s))
  ELSE s

\* re.sub(r'^www\.', '', s, flags=re.IGNORECASE)
StripWww(s) ==
  IF Len(s) >= 4 /\ ToLower(SubSeq(s, 1, 4)) = <<"w", "w", "w", ".">>
  THEN SubSeq(s, 5, Len(s))
  ELSE s

\* the {0,61} of the label pattern
LabelMidMax == 61

AlnumLower == LowerSet \cup Digits

\* the label pattern with {0,62}: one character too many
LabelMatchOffByOne(l) ==
  /\ Len(l) >= 1
  /\ l[1] \in AlnumLower
  /\ \/ Len(l) = 1
     \/ /\ Len(l) - 2 <= LabelMidMax + 1
        /\ l[Len(l)] \in AlnumLower
        /\ \A i \in 2..(Len(l) - 1) : l[i] \in AlnumLower \cup {"-"}

\* [a-z0-9]([a-z0-9\-]{0,61}[a-z0-9])?
LabelMatch(l) ==
  /\ Len(l) >= 1
  /\ l[1] \in AlnumLower
  /\ \/ Len(l) = 1
     \/ /\ Len(l) - 2 <= LabelMidMax
        /\ l[Len(l)] \in AlnumLower
        /\ \A i \in 2..(Len(l) - 1) : l[i] \in AlnumLower \cup {"-"}

\* the positions of the dots of s, with 0 and Len(s)+1 as sentinels
Cuts(s) == {0, Len(s) + 1} \cup {i \in 1..Len(s) : s[i] = "."}

\* s.split("."), as a set of (start, end) label spans
LabelSpans(s) ==
  {<<a + 1, SetMin({b \in Cuts(s) : b > a}) - 1>> : a \in Cuts(s) \ {Len(s) + 1}}

\* re.match(r'^label(\.label)*$', s)
DomainPattern(s) ==
  \A sp \in LabelSpans(s) : LabelMatch(SubSeq(s, sp[1], sp[2]))

\* lines 42-67: everything after the scheme has been dealt with
DomainTail(d0) ==
  LET d1 == IF HasChar(d0, ":") THEN SplitHead(d0, ":") ELSE d0
      d2 == IF HasChar(d1, "/") THEN SplitHead(d1, "/") ELSE d1
      d3 == StripWww(d2)
      d4 == RStrip(d3, {"."})
      d5 == Strip(ToLower(d4))
  IN  IF ~HasChar(d4, ".") THEN None
      ELSE IF ~DomainPattern(d5) THEN None
      ELSE Str(d5)

normalize_domain(domain) ==
  IF ~Truthy(domain) \/ ~IsStr(domain) THEN None
  ELSE LET d == Strip(domain.s)
       IN  IF d = <<>> THEN None
           ELSE IF Contains(d, <<":", "/", "/">>)
                THEN LET parsed == UrlParse(d)
                     IN  IF parsed.error THEN OnUrlParseError
                         ELSE DomainTail(IF parsed.netloc # <<>>
                                         THEN parsed.netloc ELSE parsed.path)
                ELSE DomainTail(d)

(***************************************************************************)
(* normalize_linkedin_url                                                  *)
(***************************************************************************)
LinkedinHost == <<"l","i","n","k","e","d","i","n",".","c","o","m">>

\* the value of the function when urlparse raises: the except clause
OnLinkedinParseError == None

\* lines 113-126
LinkedinTail(l0) ==
  LET l1 == StripWww(l0)
  IN  IF ~StartsWith(ToLower(l1), LinkedinHost) THEN None
      ELSE Str(ToLower(RStrip(l1, {"/"})))

normalize_linkedin_url(linkedin) ==
  IF ~Truthy(linkedin) \/ ~IsStr(linkedin) THEN None
  ELSE LET l == Strip(linkedin.s)
       IN  IF l = <<>> THEN None
           ELSE IF Contains(l, <<":", "/", "/">>)
                THEN LET parsed == UrlParse(l)
                     IN  IF parsed.error THEN OnLinkedinParseError
                         ELSE LinkedinTail(parsed.netloc \o parsed.path)
                ELSE LinkedinTail(l)

(***************************************************************************)
(* normalize_email                                                         *)
(***************************************************************************)
EmailLocalChars == LowerSet \cup Digits \cup {".", "_", "%", "+", "-"}

EmailHostChars == LowerSet \cup Digits \cup {".", "-"}

\* the {2,} of the pattern's last group
TldMinLen == 2

\* the pattern with [a-z]+ for its last group
EmailPatternShortTld(s) ==
  \E i \in 2..Len(s) : \E j \in (i + 2)..Len(s) :
    /\ s[i] = "@"
    /\ s[j] = "."
    /\ AllIn(SubSeq(s, 1, i - 1), EmailLocalChars)
    /\ AllIn(SubSeq(s, i + 1, j - 1), EmailHostChars)
    /\ Len(s) - j >= 1
    /\ AllIn(SubSeq(s, j + 1, Len(s)), LowerSet)

\* re.match(r'^[a-z0-9._%+-]+@[a-z0-9.-]+\.[a-z]{2,}$', s)
EmailPattern(s) ==
  \E i \in 2..Len(s) : \E j \in (i + 2)..Len(s) :
    /\ s[i] = "@"
    /\ s[j] = "."
    /\ AllIn(SubSeq(s, 1, i - 1), EmailLocalChars)
    /\ AllIn(SubSeq(s, i + 1, j - 1), EmailHostChars)
    /\ Len(s) - j >= TldMinLen
    /\ AllIn(SubSeq(s, j + 1, Len(s)), LowerSet)

normalize_email(email) ==
  IF ~Truthy(email) \/ ~IsStr(email) THEN None
  ELSE LET e == Strip(email.s)
       IN  IF e = <<>> THEN None
           ELSE IF ~EmailPattern(ToLower(e)) THEN None
           ELSE Str(ToLower(e))

(***************************************************************************)
(* normalize_place_id, normalize_google_id                                 *)
(***************************************************************************)
\* a normalize_place_id that lowercases, as normalize_email does
normalize_place_id_lowercased(place_id) ==
  IF ~Truthy(place_id) \/ ~IsStr(place_id) THEN None
  ELSE LET p == Strip(place_id.s)
       IN  IF p = <<>> THEN None ELSE Str(ToLower(p))

normalize_place_id(place_id) ==
  IF ~Truthy(place_id) \/ ~IsStr(place_id) THEN None
  ELSE LET p == Strip(place_id.s)
       IN  IF p = <<>> THEN None ELSE Str(p)

normalize_google_id(google_id) ==
  IF ~Truthy(google_id) \/ ~IsStr(google_id) THEN None
  ELSE LET g == Strip(google_id.s)
       IN  IF g = <<>> THEN None ELSE Str(g)

(***************************************************************************)
(* State                                                                   *)
(***************************************************************************)
VARIABLES
  kind,   \* the normalizer under call
  raw,    \* its argument
  url,    \* the components raw was put together from, when it is URL-like
  out,    \* what the first call returned
  again,  \* what the call on the first call's result returned
  pc,     \* "call", "ret" (called once), "done" (called on its own result)
  table,   \* the rows of the businesses relation
  op,      \* the endpoint a request came to
  key,     \* its raw key
  emails,  \* the entries of a batch request
  limit,   \* the page size of a listing request
  offset,  \* the rows a listing request skips
  use_prepared, \* whether the operation is called with a prepared statement
  rpc,     \* where the request is
  held,    \* the sessions the request holds
  queries, \* the queries issued on its session: query text and bound parameters
  ret,     \* what the QueryBuilder operation returned
  status,  \* the status of the HTTP response, 0 before there is one
  failed,  \* whether the engine failed a query of the request
  _pool,   \* the module's global pool
  pool,    \* the pool get_db_connection got from get_pool
  racer,   \* where a concurrent call of get_pool is
  leased,  \* per pool, the sessions acquired from it and not released to it
  closer   \* where a call of close_pool is: "idle", the pool it closes, "done"

normVars == <<kind, raw, url, out, again, pc>>

\* what a request asks for
request == <<op, key, emails, limit, offset, use_prepared>>

poolVars == <<_pool, pool, racer, leased, closer>>

lookupVars == <<table, request, rpc, held, queries, ret, status, failed, poolVars>>

vars == <<normVars, lookupVars>>

(***************************************************************************)
(* Inputs of the normalizers                                               *)
(***************************************************************************)
\* longest string of the exhaustive families
MaxLen == 4

\* most copies of "www." in front of a host
MaxWww == 2

\* most dots after a host
MaxDots == 1

Repeat(s, k) == [i \in 1..(k * Len(s)) |-> s[((i - 1) % Len(s)) + 1]]

\* every string over chars of length at most n
Text(chars, n) == UNION {[1..k -> chars] : k \in 0..n}

Www == <<"w", "w", "w", ".">>

NoUrl ==
  [structured |-> FALSE, pad |-> <<>>, scheme |-> <<>>, userinfo |-> <<>>,
   www |-> <<>>, core |-> <<>>, dots |-> <<>>, port |-> <<>>, path |-> <<>>,
   query |-> <<>>, fragment |-> <<>>]

\* the string a URL-like input stands for
Assemble(u) ==
  u.pad \o u.scheme \o u.userinfo \o u.www \o u.core \o u.dots \o u.port
        \o u.path \o u.query \o u.fragment \o u.pad

Pads == {<<>>, <<" ">>}

Schemes == {<<>>, <<"h", ":", "/", "/">>, <<"H", ":", "/", "/">>}

Userinfos == {<<>>, <<"a", "@">>, <<"a", ":", "a", "@">>}

WwwPrefixes == {Repeat(Www, k) : k \in 0..MaxWww} \cup {<<"W", "w", "W", ".">>}

TrailingDots == {Repeat(<<".">>, k) : k \in 0..MaxDots}

Ports == {<<>>, <<":", "8">>}

Queries == {<<>>, <<"?", "a", "/">>}

Fragments == {<<>>, <<"#", "a">>}

\* a label of n letters
LongLabel(n) == [i \in 1..n |-> "a"]

DomainCores ==
  { <<"a", ".", "c", "o">>,
    <<"A", ".", "C", "o">>,
    <<"a", "-", "8", ".", "a", ".", "c", "o">>,
    LongLabel(LabelMidMax + 2) \o <<".", "c", "o">>,
    LongLabel(LabelMidMax + 3) \o <<".", "c", "o">>,
    <<"-", "a", ".", "c", "o">>,
    <<"a", ".", ".", "c", "o">>,
    <<"[", "a", ".", "c", "o">>,
    <<KelvinSign, ".", "c", "o">>,
    <<EAcuteCapital, ".", "c", "o">>,
    <<"a">> }

DomainPaths == {<<>>, <<"/">>, <<"/", "a", ".", "a", "/", "a">>}

DomainChars == {"a", "A", "8", ".", "-", ":", "/", "@", "?", " ", "["}

LinkedinCores ==
  { LinkedinHost,
    <<"L", "i", "n", "k", "e", "d", "I", "n", ".", "c", "o", "m">>,
    <<"n", "o", "t", "-">> \o LinkedinHost,
    <<"a", ".", "c", "o">>,
    <<"[">> \o LinkedinHost }

LinkedinChars == {"l", ".", "/", ":", " "}

LinkedinPaths ==
  { <<>>, <<"/">>, <<"/", "i", "n", "/", "a">>, <<"/", "I", "n", "/", "a", "/", "/">>,
    <<"/", "a", " ", "/">>, <<":", "/", "/", "a">> }

UrlLike(cores, paths) ==
  [structured : {TRUE}, pad : Pads, scheme : Schemes, userinfo : Userinfos,
   www : WwwPrefixes, core : cores, dots : TrailingDots, port : Ports,
   path : paths, query : Queries, fragment : Fragments]

EmailLocals ==
  { <<>>, <<"a">>, <<"A", ".", "a">>, <<"a", "_", "%", "+", "-", "8">>,
    <<"a", " ", "a">>, <<"a", "#">>, <<KelvinSign>>, <<"a", EAcuteCapital>> }

EmailAts == {<<"@">>, <<>>, <<"@", "@">>}

EmailHosts ==
  { <<>>, <<"a">>, <<"A">>, <<"8">>, <<"a", "-", "a", ".", "a">>, <<".">>, <<"-">>,
    <<"a", ".">>, <<"a", "_", "a">> }

EmailTlds ==
  { <<>>, <<".">>, <<".", "c">>, <<".", "c", "o">>, <<".", "C", "O">>,
    <<".", "c", "8">>, <<".", "c", "o", "m">> }

EmailLike ==
  {p \o l \o a \o h \o d \o p :
     p \in Pads, l \in EmailLocals, a \in EmailAts, h \in EmailHosts, d \in EmailTlds}

EmailChars == {"a", "A", "8", ".", "@", "-", "_", " "}

IdChars == {"a", "A", "8", "_", " "}

\* None and two values that are not strings
NotStrings == {None, NonStr(0), NonStr(5)}

Kinds == {"domain", "linkedin", "email", "place_id", "google_id"}

\* the plain (not URL-like) arguments of each normalizer
PlainInputs(k) ==
  NotStrings \cup
  CASE k = "domain"   -> {Str(s) : s \in Text(DomainChars, MaxLen)}
    [] k = "linkedin" -> {Str(s) : s \in Text(LinkedinChars, MaxLen)}
    [] k = "email"    -> {Str(s) : s \in Text(EmailChars, MaxLen) \cup EmailLike}
    [] OTHER          -> {Str(s) : s \in Text(IdChars, MaxLen)}

\* the URL-like arguments of each normalizer
UrlInputs(k) ==
  CASE k = "domain"   -> UrlLike(DomainCores, DomainPaths)
    [] k = "linkedin" -> UrlLike(LinkedinCores, LinkedinPaths)
    [] OTHER          -> {}

(***************************************************************************)
(* The normalizers, each applied to an argument and then to its own result *)
(***************************************************************************)
\* no request is being served
NoRet == [t |-> "pending", rows |-> <<>>]

\* no pool
NoPool == "none"

\* the pools there may be: the one created at startup or by the request's
\* get_pool, and the one a concurrent get_pool creates
Pools == {"first", "second"}

NoneLeased == [p \in Pools |-> 0]

LookupIdle ==
  /\ _pool = NoPool
  /\ pool = NoPool
  /\ racer = "idle"
  /\ leased = NoneLeased
  /\ closer = "idle"
  /\ table = {}
  /\ op = "none"
  /\ key = None
  /\ emails = <<>>
  /\ limit = 0
  /\ offset = 0
  /\ use_prepared = FALSE
  /\ rpc = "off"
  /\ held = 0
  /\ queries = <<>>
  /\ ret = NoRet
  /\ status = 0
  /\ failed = FALSE

InitNorm ==
  /\ LookupIdle
  /\ kind \in Kinds
  /\ \/ url = NoUrl /\ raw \in PlainInputs(kind)
     \/ url \in UrlInputs(kind) /\ raw = Str(Assemble(url))
  /\ out = None
  /\ again = None
  /\ pc = "call"

\* f is called on raw; when it returned a string, f is called on that string
Apply(k, first, second) ==
  /\ kind = k
  /\ \/ /\ pc = "call"
        /\ out' = first
        /\ pc' = "ret"
        /\ UNCHANGED again
     \/ /\ pc = "ret"
        /\ IsStr(out)
        /\ again' = second
        /\ pc' = "done"
        /\ UNCHANGED out
  /\ UNCHANGED <<kind, raw, url>>
  /\ UNCHANGED lookupVars

NormalizeDomain ==
  Apply("domain", normalize_domain(raw), normalize_domain(out))

NormalizeLinkedinUrl ==
  Apply("linkedin", normalize_linkedin_url(raw), normalize_linkedin_url(out))

NormalizeEmail ==
  Apply("email", normalize_email(raw), normalize_email(out))

NormalizePlaceId ==
  Apply("place_id", normalize_place_id(raw), normalize_place_id(out))

NormalizeGoogleId ==
  Apply("google_id", normalize_google_id(raw), normalize_google_id(out))

NextNorm ==
  \/ NormalizeDomain
  \/ NormalizeLinkedinUrl
  \/ NormalizeEmail
  \/ NormalizePlaceId
  \/ NormalizeGoogleId

SpecNorm == InitNorm /\ [][NextNorm]_vars

(***************************************************************************)
(* Properties of the normalizers (checked under SpecNorm)                  *)
(***************************************************************************)
Called == pc \in {"ret", "done"}

\* s without one leading "www." in any letter case
DropOneWww(s) ==
  IF Len(s) >= 4 /\ s[1] \in {"w", "W"} /\ s[2] \in {"w", "W"}
                 /\ s[3] \in {"w", "W"} /\ s[4] = "."
  THEN SubSeq(s, 5, Len(s))
  ELSE s

\* the longest label of a DNS name
DnsLabelMax == 63

\* s is two or more dot-separated labels, each of 1 to 63 characters of
\* lowercase letters, digits and hyphens, none beginning or ending with a hyphen
DnsName(s) ==
  /\ s # <<>>
  /\ AllIn(s, LowerSet \cup Digits \cup {".", "-"})
  /\ HasChar(s, ".")
  /\ s[1] \notin {".", "-"}
  /\ s[Len(s)] \notin {".", "-"}
  /\ \A i \in 1..(Len(s) - 1) :
       /\ ~(s[i] = "." /\ s[i + 1] \in {".", "-"})
       /\ ~(s[i] = "-" /\ s[i + 1] = ".")
  /\ \A i \in 1..(Len(s) - DnsLabelMax) : HasChar(SubSeq(s, i, i + DnsLabelMax), ".")

\* C1: for every normalizer, a returned canonical value is a fixed point:
\* the call on the first call's result returns that same result.
C1_Idempotent == pc = "done" => again = out

\* the host of a URL-like input
HostOf(u) == u.www \o u.core \o u.dots

\* C2: for a URL-like input (optional scheme, userinfo, a valid host, optional
\* port, path, query, fragment) normalize_domain returns the host alone, without
\* one leading "www.", without trailing dots, lowercased.  (Stated for the inputs
\* that have a scheme.)
C2_HostOnly ==
  (/\ kind = "domain" /\ Called /\ url.structured /\ url.scheme # <<>>
   /\ DnsName(ToLower(url.core)))
    => out = Str(ToLower(RStrip(DropOneWww(HostOf(url)), {"."})))

\* C3: a result of normalize_domain is a lowercase DNS name of two or more
\* labels; an argument with no dot is rejected; a DNS name that does not start
\* with "www." is returned unchanged.
C3_DnsLabels ==
  (kind = "domain" /\ Called) =>
    /\ out = None \/ (IsStr(out) /\ DnsName(out.s))
    /\ (IsStr(raw) /\ ~HasChar(raw.s, ".")) => out = None
    /\ (IsStr(raw) /\ DnsName(raw.s) /\ ~StartsWith(raw.s, Www)) => out = raw

\* a host with a label of 63 characters came back unchanged
C3_Witness ==
  /\ kind = "domain"
  /\ pc = "ret"
  /\ out = raw
  /\ IsStr(out)
  /\ Len(out.s) > DnsLabelMax
  /\ Cardinality({i \in 1..Len(out.s) : out.s[i] = "."}) >= 1

\* C4: normalize_linkedin_url drops scheme and userinfo, joins host and path,
\* drops a leading "www.", and returns that string lowercased and without
\* trailing slashes exactly when it starts with "linkedin.com", None otherwise.
\* (Stated for the inputs with a scheme and no port, query or fragment.)
C4_LinkedinShape ==
  (/\ kind = "linkedin" /\ Called /\ url.structured /\ url.scheme # <<>>
   /\ url.port = <<>> /\ url.query = <<>> /\ url.fragment = <<>>)
    => LET s == DropOneWww(HostOf(url) \o url.path)
       IN  out = IF StartsWith(ToLower(s), LinkedinHost)
                 THEN Str(ToLower(RStrip(s, {"/"})))
                 ELSE None

\* the positions of the character c in s
Positions(s, c) == {i \in 1..Len(s) : s[i] = c}

\* local-part@host.tld with host.tld a sequence of non-empty labels of
\* [a-z0-9-] and a last label of two or more letters
EmailOfLabels(s) ==
  /\ Cardinality(Positions(s, "@")) = 1
  /\ LET at == Find(s, "@")
         dom == SubSeq(s, at + 1, Len(s))
         lastDot == SetMax(Positions(dom, ".") \cup {0})
     IN  /\ at > 1
         /\ AllIn(SubSeq(s, 1, at - 1), LowerSet \cup Digits \cup {".", "_", "%", "+", "-"})
         /\ AllIn(dom, LowerSet \cup Digits \cup {".", "-"})
         /\ lastDot > 1
         /\ dom[1] # "."
         /\ \A i \in 1..(Len(dom) - 1) : ~(dom[i] = "." /\ dom[i + 1] = ".")
         /\ Len(dom) - lastDot >= 2
         /\ AllIn(SubSeq(dom, lastDot + 1, Len(dom)), LowerSet)

\* local-part@host.tld with host any non-empty string of [a-z0-9.-] and tld
\* two or more letters
EmailOfHostChars(s) ==
  /\ Cardinality(Positions(s, "@")) = 1
  /\ LET at == Find(s, "@")
         dom == SubSeq(s, at + 1, Len(s))
         lastDot == SetMax(Positions(dom, ".") \cup {0})
     IN  /\ at > 1
         /\ AllIn(SubSeq(s, 1, at - 1), LowerSet \cup Digits \cup {".", "_", "%", "+", "-"})
         /\ AllIn(dom, LowerSet \cup Digits \cup {".", "-"})
         /\ lastDot > 1
         /\ Len(dom) - lastDot >= 2
         /\ AllIn(SubSeq(dom, lastDot + 1, Len(dom)), LowerSet)

\* t is s without its leading and trailing whitespace
IsTrimOf(t, s) ==
  /\ t = <<>> \/ (t[1] \notin Whitespace /\ t[Len(t)] \notin Whitespace)
  /\ \E i \in 0..Len(s) :
       /\ i + Len(t) <= Len(s)
       /\ SubSeq(s, i + 1, i + Len(t)) = t
       /\ AllIn(SubSeq(s, 1, i), Whitespace)
       /\ AllIn(SubSeq(s, i + Len(t) + 1, Len(s)), Whitespace)

\* s without its leading and trailing whitespace
TrimOf(s) ==
  CHOOSE t \in {SubSeq(s, i, j) : i \in 1..(Len(s) + 1), j \in 0..Len(s)} :
    IsTrimOf(t, s)

\* C5 as claimed: normalize_email returns the trimmed, lowercased argument
\* exactly when that is local-part@host.tld with a host of dot-separated
\* (non-empty) labels, and None otherwise.
C5_EmailOfLabels ==
  (kind = "email" /\ Called) =>
    /\ ~IsStr(raw) => out = None
    /\ IsStr(raw) =>
         LET t == TrimOf(ToLower(raw.s))
         IN  out = IF EmailOfLabels(t) THEN Str(t) ELSE None

\* C5 as amended: normalize_email returns the trimmed, lowercased argument
\* exactly when that is local-part@host.tld with a local part of one or more
\* of [a-z0-9._%+-], a host of one or more of [a-z0-9.-] (its labels may be
\* empty) and a last label of two or more letters, and None otherwise.
C5_EmailOfHostChars ==
  (kind = "email" /\ Called) =>
    /\ ~IsStr(raw) => out = None
    /\ IsStr(raw) =>
         LET t == TrimOf(ToLower(raw.s))
         IN  out = IF EmailOfHostChars(t) THEN Str(t) ELSE None

\* an address with an empty label in its host was accepted, trimmed and lowercased
C5_Witness ==
  /\ kind = "email"
  /\ pc = "ret"
  /\ IsStr(out)
  /\ Contains(out.s, <<".", ".">>)
  /\ out.s # raw.s

\* whitespace only
Blank(s) == AllIn(s, Whitespace)

\* C6: a normalizer never raises: it returns a string or None, and None for
\* None, for a value that is not a string, for "" and for whitespace.
C6_Total ==
  Called =>
    /\ out.t \in {"str", "none"}
    /\ (~IsStr(raw) \/ Blank(raw.s)) => out = None
    /\ pc = "done" => again.t \in {"str", "none"}

\* a URL that urlparse refuses went through a normalizer, which returned None
C6_Witness ==
  /\ pc = "ret"
  /\ IsStr(raw)
  /\ Contains(raw.s, <<":", "/", "/">>)
  /\ UrlParse(Strip(raw.s)).error
  /\ out = None

\* C7: normalize_domain, normalize_linkedin_url and normalize_email give an
\* argument and its lowercased form the same result (so any two arguments that
\* differ only in the case of ASCII letters get the same result).
C7_CaseInsensitive ==
  (Called /\ IsStr(raw)) =>
    /\ kind = "domain" => out = normalize_domain(Str(ToLower(raw.s)))
    /\ kind = "linkedin" => out = normalize_linkedin_url(Str(ToLower(raw.s)))
    /\ kind = "email" => out = normalize_email(Str(ToLower(raw.s)))

\* an argument with an uppercase "www." prefix was accepted
C7_Witness ==
  /\ kind \in {"domain", "linkedin"}
  /\ pc = "ret"
  /\ IsStr(raw)
  /\ IsStr(out)
  /\ url.www = <<"W", "w", "W", ".">>

\* C8: normalize_place_id and normalize_google_id return the argument without
\* its leading and trailing whitespace, nothing else changed, and None exactly
\* when the argument is None or blank.
C8_TrimOnly ==
  (kind \in {"place_id", "google_id"} /\ Called /\ (IsStr(raw) \/ raw = None)) =>
    IF raw = None \/ Blank(raw.s)
    THEN out = None
    ELSE out = Str(TrimOf(raw.s))

\* an identifier with an uppercase letter and whitespace around it came back trimmed
C8_Witness ==
  /\ kind = "place_id"
  /\ pc = "ret"
  /\ IsStr(out)
  /\ Len(out.s) < Len(raw.s)
  /\ HasChar(out.s, "A")

\* s has a character outside ASCII
NonAscii(s) == \E i \in DOMAIN s : s[i] \in NonAsciiChars

\* C20: lowercasing folds no character from outside ASCII into an ASCII letter:
\* an address with such a character, and a URL with such a character in its
\* host, is rejected.
C20_AsciiFolding ==
  (Called /\ IsStr(raw)) =>
    /\ (kind = "email" /\ NonAscii(raw.s)) => out = None
    /\ (kind = "domain" /\ url # NoUrl /\ NonAscii(url.core)) => out = None

(***************************************************************************)
(* The businesses relation and the storage engine                          *)
(***************************************************************************)
\* most rows of the relation
MaxRows == 2

Null == None

Row(id, site, linkedin, place_id, google_id, cid, kgmid, e1, e2, e3) ==
  [id |-> id, site |-> site, linkedin |-> linkedin, place_id |-> place_id,
   google_id |-> google_id, cid |-> cid, kgmid |-> kgmid,
   email_1 |-> e1, email_2 |-> e2, email_3 |-> e3]

SiteA == <<"h", "t", "t", "p", "s", ":", "/", "/", "w", "w", "w", ".", "a", ".", "c", "o", "/">>

SiteB == <<"H", "T", "T", "P", ":", "/", "/", "B", ".", "A", ".", "C", "O">>

ProfileA == <<"h", "t", "t", "p", "s", ":", "/", "/", "w", "w", "w", ".">>
              \o LinkedinHost \o <<"/", "i", "n", "/", "a">>

MailA == <<"a", "@", "a", ".", "c", "o">>

MailB == <<"b", "@", "a", ".", "c", "o">>

RowPool ==
  { Row(1, Str(SiteA), Str(ProfileA), Str(<<"P", "1">>), Str(<<"g", "1">>), Null, Null,
        Str(MailA), Null, Null),
    Row(2, Str(SiteB), Null, Str(<<"P", "1">>), Null, Str(<<"g", "1">>), Null,
        Null, Str(MailA), Str(MailB)),
    Row(3, Null, Str(ProfileA), Str(<<"p", "1">>), Null, Null, Str(<<"g", "1">>),
        Str(MailB), Null, Null),
    Row(4, Str(<<"a", ".", "c", "o">>), Null, Null, Str(<<"G", "1">>), Null, Null,
        Null, Null, Null) }

Tables == {T \in SUBSET RowPool : Cardinality(T) <= MaxRows}

\* the rows of a set whose ids are in lo..hi as a list, by ascending id
RECURSIVE ByIdIn(_, _, _)
ByIdIn(S, lo, hi) ==
  IF S = {} THEN <<>>
  ELSE IF lo = hi THEN <<CHOOSE r \in S : TRUE>>
  ELSE LET mid == (lo + hi) \div 2
       IN  ByIdIn({r \in S : r.id <= mid}, lo, mid) \o ByIdIn({r \in S : r.id > mid}, mid + 1, hi)

\* the rows of a set as a list, by ascending id
ById(S) ==
  IF S = {} THEN <<>>
  ELSE LET ids == {r.id : r \in S}
       IN  ByIdIn(S, SetMin(ids), SetMax(ids))

\* s ILIKE p: % is any string, _ any one character, \ quotes the next character
RECURSIVE ILike(_, _)
ILike(s, p) ==
  IF p = <<>> THEN s = <<>>
  ELSE IF p[1] = "%"
       THEN Len(p) = 1 \/ \E k \in 0..Len(s) : ILike(SubSeq(s, k + 1, Len(s)), Tail(p))
  ELSE IF s = <<>> THEN FALSE
  ELSE IF p[1] = "_" THEN ILike(Tail(s), Tail(p))
  ELSE IF p[1] = "\\" /\ Len(p) >= 2
       THEN LowerChar(s[1]) = LowerChar(p[2]) /\ ILike(Tail(s), SubSeq(p, 3, Len(p)))
  ELSE LowerChar(s[1]) = LowerChar(p[1]) /\ ILike(Tail(s), Tail(p))

\* column ILIKE $n: NULL matches nothing
ColILike(v, p) == IsStr(v) /\ ILike(v.s, p)

\* column = $n: NULL equals nothing
ColEq(v, x) == IsStr(v) /\ v.s = x

DomainQuery == "WHERE site ILIKE $1 OR site ILIKE $2 LIMIT 100"

LinkedinQuery == "WHERE linkedin ILIKE $1 LIMIT 100"

PlaceIdQuery == "WHERE place_id = $1 LIMIT 1"

EmailQuery == "WHERE email_1 = $1 OR email_2 = $1 OR email_3 = $1 LIMIT 100"

GoogleIdQuery == "WHERE google_id = $1 OR cid = $1 OR kgmid = $1 LIMIT 100"

BatchQuery ==
  "WHERE email_1 = ANY($1::text[]) OR email_2 = ANY($1::text[]) OR email_3 = ANY($1::text[]) LIMIT 1000"

EnrichedQuery == "WHERE email_1 IS NOT NULL ORDER BY id LIMIT $1 OFFSET $2"

\* the LIMIT of the list queries
ListLimit == 100

\* the LIMIT of the batch query
BatchLimit == 1000

\* the LIMIT of the place-ID query
RowLimit == 1

\* the WHERE clause of a query on a row
Where(q, r) ==
  CASE q.text = DomainQuery   -> ColILike(r.site, q.params[1]) \/ ColILike(r.site, q.params[2])
    [] q.text = LinkedinQuery -> ColILike(r.linkedin, q.params[1])
    [] q.text = PlaceIdQuery  -> ColEq(r.place_id, q.params[1])
    [] q.text = EmailQuery    -> \/ ColEq(r.email_1, q.params[1])
                                 \/ ColEq(r.email_2, q.params[1])
                                 \/ ColEq(r.email_3, q.params[1])
    [] q.text = GoogleIdQuery -> \/ ColEq(r.google_id, q.params[1])
                                 \/ ColEq(r.cid, q.params[1])
                                 \/ ColEq(r.kgmid, q.params[1])
    [] q.text = BatchQuery    -> \E x \in Range(q.params[1]) :
                                   \/ ColEq(r.email_1, x)
                                   \/ ColEq(r.email_2, x)
                                   \/ ColEq(r.email_3, x)
    [] q.text = EnrichedQuery -> r.email_1 # Null
    [] OTHER                  -> FALSE

LimitOf(q) ==
  CASE q.text = PlaceIdQuery  -> RowLimit
    [] q.text = BatchQuery    -> BatchLimit
    [] q.text = EnrichedQuery -> q.params[1]
    [] OTHER                  -> ListLimit

\* a listing query whose OFFSET is not applied
OffsetIgnored(q) == 0

\* OFFSET: only the listing query has one
OffsetOf(q) == IF q.text = EnrichedQuery THEN q.params[2] ELSE 0

Smaller(a, b) == IF a <= b THEN a ELSE b

\* the subsets of S that have k elements
RECURSIVE Choose(_, _)
Choose(S, k) ==
  IF k = 0 THEN {{}}
  ELSE IF k = 1 THEN {{x} : x \in S}
  ELSE IF S = {} THEN {}
  ELSE LET x == CHOOSE y \in S : TRUE
       IN  {D \cup {x} : D \in Choose(S \ {x}, k - 1)} \cup Choose(S \ {x}, k)

\* the list L without its i-th element
RemoveAt(L, i) == SubSeq(L, 1, i - 1) \o SubSeq(L, i + 1, Len(L))

\* the list L without the elements at the positions D
RECURSIVE Omit(_, _)
Omit(L, D) ==
  IF D = {} THEN L
  ELSE LET d == SetMax(D)
       IN  Omit(RemoveAt(L, d), D \ {d})

\* the elements of the list L at the positions K, in their order
RECURSIVE Pick(_, _)
Pick(L, K) ==
  IF K = {} THEN <<>>
  ELSE LET k == SetMin(K)
       IN  <<L[k]>> \o Pick(L, K \ {k})

\* a query without its LIMIT: every element of L
SublistsUnlimited(L, n) == {L}

\* the lists of n elements of the list L, in their order
Sublists(L, n) ==
  IF 2 * n >= Len(L)
  THEN {Omit(L, D) : D \in Choose(1..Len(L), Len(L) - n)}
  ELSE {Pick(L, K) : K \in Choose(1..Len(L), n)}

\* the rows the engine may answer a query with, listed by id. With ORDER BY id
\* the rows after the first OFFSET, up to LIMIT of them; with no ORDER BY, any
\* LIMIT-many of the matching rows
Answers(q, T) ==
  LET matching == ById({r \in T : Where(q, r)})
      M == Len(matching)
  IN  IF q.text = EnrichedQuery
      THEN {SubSeq(matching, OffsetOf(q) + 1, Smaller(M, OffsetOf(q) + LimitOf(q)))}
      ELSE Sublists(matching, Smaller(M, LimitOf(q)))

(***************************************************************************)
(* QueryBuilder and the endpoints                                          *)
(***************************************************************************)
\* the operations that take one key
KeyOps == {"by_domain", "by_linkedin", "by_place_id", "by_email", "by_google_id"}

Ops == KeyOps \cup {"batch_by_emails", "enriched_contacts"}

\* most entries of a batch request
MaxEmails == 2

\* largest page size of a listing request
MaxLimit == 2

\* largest offset of a listing request
MaxOffset == 2

\* the entries batch requests are made of
BatchEntries ==
  { MailA, <<" ", "A", "@", "a", ".", "C", "O">>, MailB, <<"z", "@", "a", ".", "c", "o">>,
    <<"a", "@", "a">>, <<>> }

\* BatchEmailRequest.emails: a list of strings that is not empty
BatchLists ==
  UNION {[1..n -> {Str(e) : e \in BatchEntries}] : n \in 1..MaxEmails}

RawKeys(o) ==
  CASE o = "by_domain" ->
         { <<>>, <<" ">>, <<"a">>, <<"w", "w", "w", ".", "A", ".", "c", "o">>,
           <<"h", ":", "/", "/", "b", ".", "a", ".", "c", "o", "/", "a">>,
           <<"h", ":", "/", "/", "[", "a", ".", "c", "o">>, <<"z", ".", "c", "o">> }
    [] o = "by_linkedin" ->
         { <<>>, <<"a", ".", "c", "o">>, LinkedinHost \o <<"/", "I", "n", "/", "a", "/">>,
           <<"h", ":", "/", "/", "[">> \o LinkedinHost, LinkedinHost \o <<"/", "z">>,
           LinkedinHost \o <<"/", "i", "n", "/", "_">> }
    [] o = "by_place_id" ->
         { <<>>, <<" ">>, <<"P", "1">>, <<" ", "P", "1", " ">>, <<"p", "1">>, <<"z">> }
    [] o = "by_email" ->
         { <<>>, <<"a">>, <<"a", "@", "a">>, <<"A", "@", "a", ".", "C", "O", " ">>, MailB,
           <<"z", "@", "a", ".", "c", "o">> }
    [] OTHER ->
         { <<>>, <<" ">>, <<"g", "1">>, <<" ", "G", "1">>, <<"z">> }

Init ==
  /\ kind = "none"
  /\ raw = None
  /\ url = NoUrl
  /\ out = None
  /\ again = None
  /\ pc = "off"
  /\ table \in Tables
  /\ op \in Ops
  /\ use_prepared \in BOOLEAN
  /\ \/ /\ op \in KeyOps
        /\ key \in {Str(k) : k \in RawKeys(op)}
        /\ emails = <<>>
        /\ limit = 0
        /\ offset = 0
     \/ /\ op = "batch_by_emails"
        /\ key = None
        /\ emails \in BatchLists
        /\ limit = 0
        /\ offset = 0
     \/ /\ op = "enriched_contacts"
        /\ key = None
        /\ emails = <<>>
        /\ limit \in 1..MaxLimit
        /\ offset \in 0..MaxOffset
  /\ rpc = "start"
  /\ held = 0
  /\ queries = <<>>
  /\ ret = NoRet
  /\ status = 0
  /\ failed = FALSE
  /\ _pool \in {NoPool, "first"}
  /\ pool = NoPool
  /\ racer = "idle"
  /\ leased = NoneLeased
  /\ closer = "idle"

\* get_pool, called by get_db_connection: the global pool when there is one;
\* otherwise create_pool is awaited
GetPool ==
  /\ rpc = "start"
  /\ IF _pool = NoPool
     THEN rpc' = "creating" /\ UNCHANGED pool
     ELSE rpc' = "acquiring" /\ pool' = _pool
  /\ UNCHANGED <<table, request, held, queries, ret, status, _pool, racer, leased, closer>>
  /\ UNCHANGED normVars
  /\ UNCHANGED failed

\* get_pool, after create_pool: the new pool is made the global pool and returned
CreatePool ==
  /\ rpc = "creating"
  /\ _pool' = "first"
  /\ pool' = "first"
  /\ rpc' = "acquiring"
  /\ UNCHANGED <<table, request, held, queries, ret, status, racer, leased, closer>>
  /\ UNCHANGED normVars
  /\ UNCHANGED failed

\* a concurrent call of get_pool finds no global pool and awaits create_pool
RacerGetPool ==
  /\ racer = "idle"
  /\ _pool = NoPool
  /\ racer' = "creating"
  /\ UNCHANGED <<table, request, rpc, held, queries, ret, status, _pool, pool, leased, closer>>
  /\ UNCHANGED normVars
  /\ UNCHANGED failed

\* the concurrent call makes the pool it created the global pool
RacerCreatePool ==
  /\ racer = "creating"
  /\ _pool' = "second"
  /\ racer' = "done"
  /\ UNCHANGED <<table, request, rpc, held, queries, ret, status, pool, leased, closer>>
  /\ UNCHANGED normVars
  /\ UNCHANGED failed

\* get_db_connection, up to its yield: a session is acquired from the pool
Acquire ==
  /\ rpc = "acquiring"
  /\ held' = held + 1
  /\ leased' = [leased EXCEPT ![pool] = @ + 1]
  /\ rpc' = "handler"
  /\ UNCHANGED <<table, request, queries, ret, status, _pool, pool, racer, closer>>
  /\ UNCHANGED normVars
  /\ UNCHANGED failed

List(rows) == [t |-> "list", rows |-> rows]

OneRow(rows) == [t |-> "row", rows |-> rows]

NoneRet == [t |-> "none", rows |-> <<>>]

Failure == [t |-> "raise", rows |-> <<>>]

\* the operation was cancelled at its await
Cancelled == [t |-> "cancel", rows |-> <<>>]

\* the texts of the statements prepare_statements prepares
PreparedStatements ==
  [ by_domain         |-> "WHERE site ILIKE $1 OR site ILIKE $2 LIMIT 100",
    by_linkedin       |-> "WHERE linkedin ILIKE $1 LIMIT 100",
    by_place_id       |-> "WHERE place_id = $1 LIMIT 1",
    by_email          |-> "WHERE email_1 = $1 OR email_2 = $1 OR email_3 = $1 LIMIT 100",
    by_google_id      |-> "WHERE google_id = $1 OR cid = $1 OR kgmid = $1 LIMIT 100",
    batch_by_emails   |->
      "WHERE email_1 = ANY($1::text[]) OR email_2 = ANY($1::text[]) OR email_3 = ANY($1::text[]) LIMIT 1000",
    enriched_contacts |-> "WHERE email_1 IS NOT NULL ORDER BY id LIMIT $1 OFFSET $2" ]

\* conn.fetch(query, ...) / conn.fetchrow(query, ...)
AdHoc(text, params) == [text |-> text, params |-> params]

\* a call of the prepared statement with the arguments in reverse
PreparedReversed(o, params) ==
  [text |-> PreparedStatements[o],
   params |-> [i \in DOMAIN params |-> params[Len(params) + 1 - i]]]

\* use_prepared.fetch(...) / use_prepared.fetchrow(...)
Prepared(o, params) == [text |-> PreparedStatements[o], params |-> params]

\* the operation returns without a query
ReturnEarly(empty) ==
  /\ ret' = empty
  /\ rpc' = "returned"
  /\ UNCHANGED queries

\* the operation issues its query, through the prepared statement when it has one
Issue(adhoc, prepared) ==
  /\ queries' = Append(queries, IF use_prepared THEN prepared ELSE adhoc)
  /\ rpc' = "awaiting"
  /\ UNCHANGED ret

\* a QueryBuilder operation up to its await: it returns `empty` when the key does
\* not normalize, and otherwise issues the query with its bound parameters
Lookup(o, normalized, empty, text, params) ==
  /\ rpc = "handler"
  /\ op = o
  /\ IF ~Truthy(normalized)
     THEN ReturnEarly(empty)
     ELSE Issue(AdHoc(text, params), Prepared(o, params))
  /\ UNCHANGED <<table, request, held, status>>
  /\ UNCHANGED normVars
  /\ UNCHANGED failed
  /\ UNCHANGED poolVars

ByDomain ==
  LET normalized_domain == normalize_domain(key)
      domain_pattern == <<"%">> \o normalized_domain.s \o <<"%">>
      domain_exact == <<"%", "/", "/">> \o normalized_domain.s \o <<"%">>
  IN  Lookup("by_domain", normalized_domain, List(<<>>), DomainQuery,
             <<domain_exact, domain_pattern>>)

ByLinkedin ==
  LET normalized_linkedin == normalize_linkedin_url(key)
      linkedin_pattern == <<"%">> \o normalized_linkedin.s \o <<"%">>
  IN  Lookup("by_linkedin", normalized_linkedin, List(<<>>), LinkedinQuery,
             <<linkedin_pattern>>)

ByPlaceId ==
  LET normalized_place_id == normalize_place_id(key)
  IN  Lookup("by_place_id", normalized_place_id, NoneRet, PlaceIdQuery,
             <<normalized_place_id.s>>)

\* a by_email without `if not normalized_email: return []`
ByEmailUnguarded ==
  /\ rpc = "handler"
  /\ op = "by_email"
  /\ queries' = Append(queries, AdHoc(EmailQuery, <<normalize_email(key).s>>))
  /\ rpc' = "awaiting"
  /\ UNCHANGED <<table, request, held, status, ret>>
  /\ UNCHANGED normVars
  /\ UNCHANGED failed
  /\ UNCHANGED poolVars

ByEmail ==
  LET normalized_email == normalize_email(key)
  IN  Lookup("by_email", normalized_email, List(<<>>), EmailQuery,
             <<normalized_email.s>>)

\* a by_google_id that writes the key into the text of its query
ByGoogleIdInterpolated ==
  LET normalized_google_id == normalize_google_id(key)
  IN  Lookup("by_google_id", normalized_google_id, List(<<>>),
             <<"WHERE google_id = '", normalized_google_id.s, "' LIMIT 100">>, <<>>)

ByGoogleId ==
  LET normalized_google_id == normalize_google_id(key)
  IN  Lookup("by_google_id", normalized_google_id, List(<<>>), GoogleIdQuery,
             <<normalized_google_id.s>>)

\* a normalized_emails that keeps what normalize_email made of every entry
NormalizedEmailsUnfiltered(es) ==
  [i \in 1..Len(es) |-> normalize_email(es[i]).s]

\* normalized_emails: the entries that normalize, normalized, in their order
NormalizedEmails(es) ==
  LET Valid(e) == Truthy(normalize_email(e))
      valid == SelectSeq(es, Valid)
  IN  [i \in 1..Len(valid) |-> normalize_email(valid[i]).s]

\* a batch_by_emails that sends the by_email query once per key
BatchByEmailsPerKey ==
  LET normalized_emails == NormalizedEmails(emails)
  IN  /\ rpc = "handler"
      /\ op = "batch_by_emails"
      /\ IF normalized_emails = <<>>
         THEN ReturnEarly(List(<<>>))
         ELSE /\ queries' = queries \o [i \in DOMAIN normalized_emails |->
                                          AdHoc(EmailQuery, <<normalized_emails[i]>>)]
              /\ rpc' = "awaiting"
              /\ UNCHANGED ret
      /\ UNCHANGED <<table, request, held, status>>
      /\ UNCHANGED normVars
      /\ UNCHANGED failed
      /\ UNCHANGED poolVars

BatchByEmails ==
  LET normalized_emails == NormalizedEmails(emails)
  IN  /\ rpc = "handler"
      /\ op = "batch_by_emails"
      /\ IF normalized_emails = <<>>
         THEN ReturnEarly(List(<<>>))
         ELSE Issue(AdHoc(BatchQuery, <<normalized_emails>>),
                    Prepared("batch_by_emails", <<normalized_emails>>))
      /\ UNCHANGED <<table, request, held, status>>
      /\ UNCHANGED normVars
      /\ UNCHANGED failed
      /\ UNCHANGED poolVars
  /\ UNCHANGED poolVars

EnrichedContacts ==
  /\ rpc = "handler"
  /\ op = "enriched_contacts"
  /\ Issue(AdHoc(EnrichedQuery, <<limit, offset>>),
           Prepared("enriched_contacts", <<limit, offset>>))
  /\ UNCHANGED <<table, request, held, status>>
  /\ UNCHANGED normVars
  /\ UNCHANGED failed
  /\ UNCHANGED poolVars

\* what fetch / fetchrow make of the rows the engine answered with
Fetched(q, rows) ==
  IF q.text = PlaceIdQuery
  THEN IF rows = <<>> THEN NoneRet ELSE OneRow(rows)
  ELSE List(rows)

\* the await ends: the engine answers the query, and the operation returns
FetchReturns ==
  /\ rpc = "awaiting"
  /\ \E rows \in Answers(queries[Len(queries)], table) :
       ret' = Fetched(queries[Len(queries)], rows)
  /\ rpc' = "returned"
  /\ UNCHANGED <<table, request, held, queries, status>>
  /\ UNCHANGED normVars
  /\ UNCHANGED failed
  /\ UNCHANGED poolVars

\* an operation that takes the engine's failure for no rows
FailureAsNoRows == List(<<>>)

\* the operations have no except clause: the engine's failure leaves them as it is
OnFetchFailure == Failure

\* the await ends: the engine fails, and the failure leaves the operation
FetchFails ==
  /\ rpc = "awaiting"
  /\ failed' = TRUE
  /\ ret' = OnFetchFailure
  /\ rpc' = "returned"
  /\ UNCHANGED <<table, request, held, queries, status>>
  /\ UNCHANGED normVars
  /\ UNCHANGED poolVars

\* an endpoint whose `except Exception` clause also takes its own HTTPException
HttpExceptionAs500(code) == 500

\* `except HTTPException: raise`: the endpoint's own HTTPException goes out as it is
OnHttpException(code) == code

\* the status an endpoint answers with
StatusOf(o, r) ==
  CASE r.t = "raise"                     -> 500
    [] o = "by_place_id" /\ r.t = "none" -> OnHttpException(404)
    [] OTHER                             -> 200

\* the endpoint, from the operation's return to its response
Respond ==
  /\ rpc = "returned"
  /\ status' = StatusOf(op, ret)
  /\ rpc' = "responded"
  /\ UNCHANGED <<table, request, held, queries, ret>>
  /\ UNCHANGED normVars
  /\ UNCHANGED failed
  /\ UNCHANGED poolVars

\* the await is cancelled: CancelledError is no Exception, so it leaves the
\* operation and the endpoint, and no response is made
Cancel ==
  /\ rpc = "awaiting"
  /\ ret' = Cancelled
  /\ rpc' = "cancelled"
  /\ UNCHANGED <<table, request, held, queries, status>>
  /\ UNCHANGED normVars
  /\ UNCHANGED failed
  /\ UNCHANGED poolVars

\* a release to whatever get_pool returns at that time, as release_connection does
PoolOfGetPool == _pool

\* the pool get_db_connection releases to: its local `pool`
PoolReleasedTo == pool

\* get_db_connection, after its yield (finally): the session goes back to the pool
Release ==
  /\ rpc \in {"responded", "cancelled"}
  /\ held' = held - 1
  /\ leased' = [leased EXCEPT ![PoolReleasedTo] = @ - 1]
  /\ rpc' = "released"
  /\ UNCHANGED <<table, request, queries, ret, status, _pool, pool, racer, closer>>
  /\ UNCHANGED normVars
  /\ UNCHANGED failed

\* the steps of the request
Next ==
  \/ GetPool
  \/ CreatePool
  \/ Acquire
  \/ ByDomain
  \/ ByLinkedin
  \/ ByPlaceId
  \/ ByEmail
  \/ ByGoogleId
  \/ BatchByEmails
  \/ EnrichedContacts
  \/ FetchReturns
  \/ FetchFails
  \/ Cancel
  \/ Respond
  \/ Release

Spec == Init /\ [][Next]_vars

\* the request next to a concurrent call of get_pool
NextPool ==
  \/ Next
  \/ RacerGetPool
  \/ RacerCreatePool

\* once the operation has returned or raised, the endpoint runs on to its
\* response, and the generator of get_db_connection is resumed or closed, so
\* that its finally clause runs
SpecPool == Init /\ [][NextPool]_vars /\ WF_vars(Respond) /\ WF_vars(Release)

\* close_pool, up to its await: when there is a global pool, its close() is
\* awaited
ClosePool ==
  /\ closer = "idle"
  /\ closer' = IF _pool = NoPool THEN "done" ELSE _pool
  /\ UNCHANGED <<table, request, rpc, held, queries, ret, status, failed>>
  /\ UNCHANGED <<_pool, pool, racer, leased>>
  /\ UNCHANGED normVars

\* close_pool, after its await: close() has waited for the pool's sessions to be
\* released, and the global pool is set to None, whichever pool it is by now
PoolClosed ==
  /\ closer \in Pools
  /\ leased[closer] = 0
  /\ _pool' = NoPool
  /\ closer' = "done"
  /\ UNCHANGED <<table, request, rpc, held, queries, ret, status, failed>>
  /\ UNCHANGED <<pool, racer, leased>>
  /\ UNCHANGED normVars

\* the request next to a concurrent call of get_pool and a call of close_pool
NextHandle ==
  \/ NextPool
  \/ ClosePool
  \/ PoolClosed

\* a request on an empty relation in a process whose global pool is not set
InitHandle ==
  /\ Init
  /\ table = {}
  /\ _pool = NoPool

SpecHandle == InitHandle /\ [][NextHandle]_vars

(***************************************************************************)
(* Requests on a relation that has about as many rows as a query's LIMIT    *)
(***************************************************************************)
\* a row every matching key of CapKeys and CapLists matches
CapRow(id) ==
  Row(id, Str(SiteA), Str(ProfileA), Str(<<"P", "1">>), Str(<<"g", "1">>), Null, Null,
      Str(MailA), Null, Null)

CapTable(n) == {CapRow(id) : id \in 1..n}

\* per operation, a key that matches CapRow, one that matches no row and one
\* that does not normalize
CapKeys(o) ==
  CASE o = "by_domain"    -> {<<"a", ".", "c", "o">>, <<"z", ".", "c", "o">>, <<"a">>}
    [] o = "by_linkedin"  -> {LinkedinHost \o <<"/", "i", "n", "/", "a">>,
                              LinkedinHost \o <<"/", "z">>, <<"a">>}
    [] o = "by_place_id"  -> {<<"P", "1">>, <<"z">>, <<>>}
    [] o = "by_email"     -> {MailA, <<"z", "@", "a", ".", "c", "o">>, <<"a">>}
    [] OTHER              -> {<<"g", "1">>, <<"z">>, <<>>}

CapLists ==
  { <<Str(<<"a", "@", "a">>), Str(MailA)>>,
    <<Str(<<"z", "@", "a", ".", "c", "o">>)>>, <<Str(<<"a", "@", "a">>)>> }

\* the LIMIT a relation is sized for: that of the operation's query, and that
\* of the list queries for the operations with a LIMIT of their own
SizedFor(o) == IF o = "batch_by_emails" THEN BatchLimit ELSE ListLimit

InitCap ==
  /\ kind = "none"
  /\ raw = None
  /\ url = NoUrl
  /\ out = None
  /\ again = None
  /\ pc = "off"
  /\ op \in Ops
  /\ table \in {CapTable(SizedFor(op) + d) : d \in {-1, 0, 1}}
  /\ use_prepared \in BOOLEAN
  /\ \/ /\ op \in KeyOps
        /\ key \in {Str(k) : k \in CapKeys(op)}
        /\ emails = <<>>
        /\ limit = 0
        /\ offset = 0
     \/ /\ op = "batch_by_emails"
        /\ key = None
        /\ emails \in CapLists
        /\ limit = 0
        /\ offset = 0
     \/ /\ op = "enriched_contacts"
        /\ key = None
        /\ emails = <<>>
        /\ limit \in 1..MaxLimit
        /\ offset \in 0..MaxOffset
  /\ rpc = "start"
  /\ held = 0
  /\ queries = <<>>
  /\ ret = NoRet
  /\ status = 0
  /\ failed = FALSE
  /\ _pool \in {NoPool, "first"}
  /\ pool = NoPool
  /\ racer = "idle"
  /\ leased = NoneLeased
  /\ closer = "idle"

SpecCap == InitCap /\ [][Next]_vars

(***************************************************************************)
(* Properties of the lookups (under Spec, SpecCap and SpecPool)             *)
(***************************************************************************)
\* the operation returned or raised
Returned == rpc \in {"returned", "responded", "released"} /\ ret # Cancelled

\* the raw key does not normalize
KeyRejected ==
  CASE op = "by_domain"    -> normalize_domain(key) = None
    [] op = "by_linkedin"  -> normalize_linkedin_url(key) = None
    [] op = "by_email"     -> normalize_email(key) = None
    [] op = "by_google_id" -> normalize_google_id(key) = None
    [] OTHER               -> FALSE

\* C9: when the raw key does not normalize, by_domain, by_linkedin, by_email and
\* by_google_id return an empty list, raise nothing and issue no query.
C9_RejectedKeyNoQuery ==
  (Returned /\ KeyRejected) =>
    /\ ret = List(<<>>)
    /\ queries = <<>>
    /\ status \in {0, 200}

\* a key that is not blank and does not normalize was answered with 200 and no query
C9_Witness ==
  /\ op \in {"by_domain", "by_linkedin", "by_email", "by_google_id"}
  /\ rpc = "responded"
  /\ ~Blank(key.s)
  /\ queries = <<>>
  /\ ret = List(<<>>)
  /\ status = 200

\* the rows that have the trimmed key as their place ID
StoredPlaces == {r \in table : r.place_id = Str(TrimOf(key.s))}

\* C10: unless the storage engine fails, by_place_id returns exactly one record,
\* one that has the (trimmed) key as its place ID, when there is such a record,
\* and None, never an empty list, when there is none or the key is blank; the
\* endpoint answers None with 404, not 500.
C10_PlaceIdOutcome ==
  (op = "by_place_id" /\ Returned /\ ret # Failure) =>
    /\ IF StoredPlaces # {} /\ ~Blank(key.s)
       THEN ret.t = "row" /\ Len(ret.rows) = 1 /\ ret.rows[1] \in StoredPlaces
       ELSE ret = NoneRet
    /\ rpc # "returned" => status = IF ret = NoneRet THEN 404 ELSE 200

\* a place ID that no row of a non-empty relation has was answered with 404
C10_Witness ==
  /\ op = "by_place_id"
  /\ rpc = "responded"
  /\ ~Blank(key.s)
  /\ table # {}
  /\ Len(queries) = 1
  /\ ret = NoneRet
  /\ status = 404

\* the request has gone through its QueryBuilder operation's synchronous part
Begun == rpc \notin {"start", "creating", "acquiring", "handler"}

\* the positions of the batch entries that are addresses once trimmed and lowercased
ValidEntries ==
  {i \in DOMAIN emails : EmailOfHostChars(TrimOf(ToLower(emails[i].s)))}

\* C11: batch_by_emails drops the entries that do not normalize without failing:
\* with no valid entry it returns an empty list and issues no query; otherwise
\* the one list bound to its query holds exactly the trimmed, lowercased valid
\* entries.
C11_BatchLeniency ==
  (op = "batch_by_emails" /\ Begun) =>
    IF ValidEntries = {}
    THEN /\ queries = <<>>
         /\ ret = List(<<>>)
         /\ status \in {0, 200}
    ELSE /\ Len(queries) = 1
         /\ Len(queries[1].params) = 1
         /\ Range(queries[1].params[1]) =
              {TrimOf(ToLower(emails[i].s)) : i \in ValidEntries}

\* a batch of a valid and an invalid entry was answered with 200 from a query
\* bound to the one valid key
C11_Witness ==
  /\ op = "batch_by_emails"
  /\ rpc = "responded"
  /\ status = 200
  /\ Len(emails) = 2
  /\ Cardinality(ValidEntries) = 1
  /\ Len(queries) = 1
  /\ Len(queries[1].params[1]) = 1
  /\ ret.rows # <<>>

\* the most records the operations are claimed to return
ClaimedCap(o) ==
  CASE o = "batch_by_emails" -> 1000
    [] o = "by_place_id"     -> 1
    [] OTHER                 -> 100

\* the operation returned what the engine answered its query with
Answered == Returned /\ queries # <<>> /\ ret # Failure

\* C12: by_domain, by_linkedin, by_email and by_google_id return min(M, 100) of
\* the M rows their query matches, batch_by_emails min(M, 1000) and by_place_id
\* min(M, 1), whatever the request.
C12_ResultCaps ==
  (op # "enriched_contacts" /\ Answered) =>
    LET M == Cardinality({r \in table : Where(queries[1], r)})
    IN  Len(ret.rows) = Smaller(M, ClaimedCap(op))

\* a batch request that matches 1001 rows was answered with 1000 records
C12_Witness ==
  /\ op = "batch_by_emails"
  /\ rpc = "responded"
  /\ status = 200
  /\ Len(queries) = 1
  /\ Cardinality({r \in table : Where(queries[1], r)}) = 1001
  /\ Len(ret.rows) = 1000

\* the rows with a primary email
EnrichedRows == {r \in table : r.email_1 # Null}

\* the number of enriched rows with a smaller id
Rank(r) == Cardinality({x \in EnrichedRows : x.id < r.id})

\* rows are the enriched rows of rank from..(to - 1), by ascending rank
IsSlice(rows, from, to) ==
  /\ Len(rows) = Cardinality({r \in EnrichedRows : Rank(r) >= from /\ Rank(r) < to})
  /\ \A i \in DOMAIN rows : rows[i] \in EnrichedRows /\ Rank(rows[i]) = from + i - 1

\* what the engine answers enriched_contacts(n, o) with
Page(n, o) == CHOOSE rows \in Answers(AdHoc(EnrichedQuery, <<n, o>>), table) : TRUE

\* C13: enriched_contacts(limit, offset) returns the rows with a primary email
\* in ascending id order, without the first offset of them and at most limit;
\* the pages (limit, 0) and (limit, limit) share no row and are, one after the
\* other, the first 2 * limit of those rows.
C13_Pagination ==
  (op = "enriched_contacts" /\ Answered) =>
    /\ IsSlice(ret.rows, offset, offset + limit)
    /\ offset = 0 => ret.rows = Page(limit, 0)
    /\ offset = limit => ret.rows = Page(limit, limit)
    /\ Range(Page(limit, 0)) \cap Range(Page(limit, limit)) = {}
    /\ IsSlice(Page(limit, 0) \o Page(limit, limit), 0, 2 * limit)

\* the second page of a relation with two enriched rows was answered with the
\* second of them
C13_Witness ==
  /\ op = "enriched_contacts"
  /\ rpc = "responded"
  /\ status = 200
  /\ Cardinality(EnrichedRows) >= 2
  /\ offset = limit
  /\ Len(ret.rows) = 1
  /\ Rank(ret.rows[1]) = offset

\* the request holds at most one session, and that session is out of the pool
\* get_db_connection got from get_pool and of no other
OneSession ==
  /\ held \in {0, 1}
  /\ rpc \in {"handler", "awaiting", "returned", "responded", "cancelled"} => held = 1
  /\ \A p \in Pools : leased[p] = IF held = 1 /\ p = pool THEN 1 ELSE 0

\* C14: a request acquires one session and on every path (records, an empty
\* result, not found, a storage failure, a cancellation of its await) comes to
\* an end where it holds none: the session went back to the pool it came from.
C14_SessionReleased ==
  /\ []OneSession
  /\ (rpc \in {"returned", "cancelled"}) ~> (rpc = "released" /\ held = 0 /\ leased = NoneLeased)

\* a cancelled request released its session to the pool it had acquired it
\* from, which is no longer the global pool
C14_Witness ==
  /\ rpc = "released"
  /\ ret = Cancelled
  /\ held = 0
  /\ pool = "first"
  /\ _pool = "second"
  /\ leased = NoneLeased

\* the request's key or keys pass normalization (a listing request has none)
Normalizes ==
  CASE op = "by_domain"       -> normalize_domain(key) # None
    [] op = "by_linkedin"     -> normalize_linkedin_url(key) # None
    [] op = "by_place_id"     -> normalize_place_id(key) # None
    [] op = "by_email"        -> normalize_email(key) # None
    [] op = "by_google_id"    -> normalize_google_id(key) # None
    [] op = "batch_by_emails" -> ValidEntries # {}
    [] OTHER                  -> TRUE

\* C15: a lookup call issues at most one query on its session, and exactly one
\* when its key normalizes; the one query of batch_by_emails is bound to the
\* whole list of normalized keys.
C15_OneQuery ==
  /\ Len(queries) <= 1
  /\ (Begun /\ Normalizes) => Len(queries) = 1
  /\ (Begun /\ op = "batch_by_emails" /\ Normalizes) =>
       Len(queries[1].params[1]) = Cardinality(ValidEntries)

\* a batch of two valid entries was answered from one query bound to both keys
C15_Witness ==
  /\ op = "batch_by_emails"
  /\ rpc = "responded"
  /\ Cardinality(ValidEntries) = 2
  /\ emails[1] # emails[2]
  /\ Len(queries) = 1
  /\ Len(queries[1].params[1]) = 2
  /\ Len(ret.rows) = 2

\* the one query text of each operation
TextOf(o) ==
  CASE o = "by_domain"       -> DomainQuery
    [] o = "by_linkedin"     -> LinkedinQuery
    [] o = "by_place_id"     -> PlaceIdQuery
    [] o = "by_email"        -> EmailQuery
    [] o = "by_google_id"    -> GoogleIdQuery
    [] o = "batch_by_emails" -> BatchQuery
    [] OTHER                 -> EnrichedQuery

\* C16: whatever the key, an operation sends the same query text; the key is
\* in the bound parameters only.
C16_FixedQueryText ==
  \A i \in DOMAIN queries :
    /\ queries[i].text = TextOf(op)
    /\ queries[i].params # <<>>

\* a domain lookup sent the fixed text with its canonical key in the patterns
\* bound to it
C16_Witness ==
  /\ op = "by_domain"
  /\ rpc = "responded"
  /\ Len(queries) = 1
  /\ queries[1].text = DomainQuery
  /\ queries[1].params = << <<"%", "/", "/", "b", ".", "a", ".", "c", "o", "%">>,
                            <<"%", "b", ".", "a", ".", "c", "o", "%">> >>

\* the query the branch without a prepared statement sends for the request
AdHocQueryOf ==
  CASE op = "by_domain" ->
         LET d == normalize_domain(key).s
         IN  AdHoc(DomainQuery, <<<<"%", "/", "/">> \o d \o <<"%">>, <<"%">> \o d \o <<"%">>>>)
    [] op = "by_linkedin" ->
         AdHoc(LinkedinQuery, <<<<"%">> \o normalize_linkedin_url(key).s \o <<"%">>>>)
    [] op = "by_place_id" -> AdHoc(PlaceIdQuery, <<normalize_place_id(key).s>>)
    [] op = "by_email" -> AdHoc(EmailQuery, <<normalize_email(key).s>>)
    [] op = "by_google_id" -> AdHoc(GoogleIdQuery, <<normalize_google_id(key).s>>)
    [] op = "batch_by_emails" -> AdHoc(BatchQuery, <<NormalizedEmails(emails)>>)
    [] OTHER -> AdHoc(EnrichedQuery, <<limit, offset>>)

\* C17: called with its prepared statement, an operation sends the text and the
\* parameters, in their order, that it sends without one, and returns what the
\* engine may answer that query with; without a query it returns the same
\* empty result.
C17_PreparedSameAsAdHoc ==
  (use_prepared /\ Returned /\ ret # Failure) =>
    IF Normalizes
    THEN /\ queries = <<AdHocQueryOf>>
         /\ \E rows \in Answers(AdHocQueryOf, table) : ret = Fetched(AdHocQueryOf, rows)
    ELSE /\ queries = <<>>
         /\ ret = IF op = "by_place_id" THEN NoneRet ELSE List(<<>>)

\* a domain lookup through the prepared statement returned a matching row
C17_Witness ==
  /\ use_prepared
  /\ op = "by_domain"
  /\ rpc = "responded"
  /\ status = 200
  /\ queries = <<AdHocQueryOf>>
  /\ ret.rows # <<>>

\* C18: when the engine fails the query, the operation raises the failure: it
\* returns nothing, sends no second query, and the endpoint answers with 500.
C18_FailurePropagates ==
  failed =>
    /\ ret = Failure
    /\ Len(queries) = 1
    /\ rpc \in {"returned", "responded", "released"}
    /\ status = IF rpc = "returned" THEN 0 ELSE 500

\* the engine failed an email lookup of a stored address, and the request was
\* answered with 500
C18_Witness ==
  /\ failed
  /\ op = "by_email"
  /\ \E r \in table : r.email_1 = Str(normalize_email(key).s)
  /\ rpc = "responded"
  /\ ret = Failure
  /\ status = 500

\* the canonical key of a pattern lookup and the column it is matched against
PatternKey ==
  IF op = "by_domain" THEN normalize_domain(key).s ELSE normalize_linkedin_url(key).s

PatternColumn(r) == IF op = "by_domain" THEN r.site ELSE r.linkedin

\* C19: by_domain and by_linkedin return only rows whose site, respectively
\* linkedin, value contains the canonical key as a substring, letter case
\* aside: no character of the key stands for other characters.
C19_Containment ==
  (op \in {"by_domain", "by_linkedin"} /\ Answered) =>
    \A i \in DOMAIN ret.rows :
      /\ IsStr(PatternColumn(ret.rows[i]))
      /\ Contains(ToLower(PatternColumn(ret.rows[i]).s), ToLower(PatternKey))

\* C21: the process has one pool: no two calls of get_pool create a pool at the
\* same time; as long as close_pool was not called, the pool the request got is
\* the pool the concurrent caller got, and it is the global pool.
C21_SinglePool ==
  /\ ~(rpc = "creating" /\ racer = "creating")
  /\ (closer = "idle" /\ pool # NoPool /\ racer = "done") => pool = "second"
  /\ (closer = "idle" /\ pool # NoPool) => _pool = pool

=============================================================================
